---------------------------- MODULE Spec2Model ----------------------------
(***************************************************************************)
(* A model of the two programs of the repository:                          *)
(*                                                                         *)
(*   - GridLines (record_viewer/src/GridLines.tsx), the timeline ruler of  *)
(*     the record viewer: the selection of the tick interval and the       *)
(*     layout of the guide lines;                                          *)
(*   - RAG_with_OpenAI_Assistant.retrieve_and_generate                     *)
(*     (openai_assistants_api.ipynb), the polling of an Assistants run.    *)
(*                                                                         *)
(* JavaScript numbers are IEEE-754 binary64 values.  The pixel positions   *)
(* of GridLines are quotients and products that are not exact in binary64, *)
(* so they are modelled as binary64 values: a 53-bit significand held in   *)
(* limbs of LimbBits bits and a binary exponent, every operation rounded   *)
(* to nearest, ties to even.  The props are non-negative integers; for     *)
(* integers a < 2^53 and b <= 60000 Math.floor(a / b) is the integer       *)
(* quotient (a / b lies at least 1 / b below the next integer, more than   *)
(* the rounding error of the division), and it is modelled by \div.        *)
(* Negative and fractional props are not modelled.                         *)
(***************************************************************************)
EXTENDS Integers, Sequences, FiniteSets, TLC

(***************************************************************************)
(* binary64 arithmetic on non-negative values                              *)
(***************************************************************************)

\* bits of one limb of a significand (a limb times a 17-bit integer fits TLC's integers)
LimbBits == 13
LimbBase == 2^LimbBits
\* bits of the significand of a binary64 value
MantBits == 53
MantLimbs == (MantBits + LimbBits - 1) \div LimbBits
\* fraction limbs a quotient is computed to before it is rounded
FracLimbs == MantLimbs + 2

Pow2 == [n \in 0..30 |-> 2^n]

Limb(a, idx) == IF idx >= 1 /\ idx <= Len(a) THEN a[idx] ELSE 0

RECURSIVE BitLen(_)
BitLen(x) == IF x = 0 THEN 0 ELSE 1 + BitLen(x \div 2)

RECURSIVE BigTrim(_)
BigTrim(a) ==
    IF Len(a) > 0 /\ a[Len(a)] = 0 THEN BigTrim(SubSeq(a, 1, Len(a) - 1)) ELSE a

BigBitLen(a) ==
    LET t == BigTrim(a)
    IN  IF Len(t) = 0 THEN 0 ELSE (Len(t) - 1) * LimbBits + BitLen(t[Len(t)])

\* the limbs of a natural number, least significant first
RECURSIVE BigFromInt(_)
BigFromInt(k) ==
    IF k = 0 THEN <<>> ELSE <<k % LimbBase>> \o BigFromInt(k \div LimbBase)

RECURSIVE BigMulFrom(_, _, _, _)
BigMulFrom(a, k, j, c) ==
    IF j > Len(a) THEN BigFromInt(c)
    ELSE LET v == a[j] * k + c
         IN  <<v % LimbBase>> \o BigMulFrom(a, k, j + 1, v \div LimbBase)

BigMul(a, k) == BigMulFrom(a, k, 1, 0)

RECURSIVE BigAddFrom(_, _, _, _)
BigAddFrom(a, b, j, c) ==
    IF j > Len(a) /\ j > Len(b) THEN BigFromInt(c)
    ELSE LET v == Limb(a, j) + Limb(b, j) + c
         IN  <<v % LimbBase>> \o BigAddFrom(a, b, j + 1, v \div LimbBase)

BigAdd(a, b) == BigAddFrom(a, b, 1, 0)

\* the limb of a that starts at bit p (p < 0: a shifted left)
Window(a, p) ==
    LET q == p \div LimbBits
        r == p % LimbBits
    IN  (Limb(a, q + 1) \div Pow2[r]) + (Limb(a, q + 2) % Pow2[r]) * Pow2[LimbBits - r]

\* the n low limbs of floor(a / 2^p)
BigShift(a, p, n) == [j \in 1..n |-> Window(a, p + LimbBits * (j - 1))]

BigBit(a, p) == (Limb(a, p \div LimbBits + 1) \div Pow2[p % LimbBits]) % 2

BigLowNonZero(a, p) ==
    \/ \E j \in 1..(p \div LimbBits) : Limb(a, j) # 0
    \/ Limb(a, p \div LimbBits + 1) % Pow2[p % LimbBits] # 0

FZero == [kind |-> "zero"]
FNaN == [kind |-> "NaN"]
FInfinity == [kind |-> "Infinity"]

\* the significand 2^(MantBits - 1)
MantMin == [j \in 1..MantLimbs |-> IF j = MantLimbs THEN Pow2[(MantBits - 1) % LimbBits] ELSE 0]

\* the binary64 value nearest to (a + sticky) * 2^e, ties to even: sticky says that
\* the exact value lies strictly between a * 2^e and (a + 1) * 2^e
FRound(a, e, sticky) ==
    LET L == BigBitLen(a)
        d == L - MantBits
        m0 == BigShift(a, d, MantLimbs)
        guard == d >= 1 /\ BigBit(a, d - 1) = 1
        st == sticky \/ (d >= 2 /\ BigLowNonZero(a, d - 1))
        up == guard /\ (st \/ m0[1] % 2 = 1)
        m1 == IF up THEN BigShift(BigAdd(m0, <<1>>), 0, MantLimbs) ELSE m0
    IN  IF L = 0 THEN FZero
        ELSE IF m1[MantLimbs] >= 2 * MantMin[MantLimbs]
             THEN [kind |-> "finite", m |-> MantMin, e |-> e + d + 1]
        ELSE [kind |-> "finite", m |-> m1, e |-> e + d]

FFromInt(k) == FRound(BigFromInt(k), 0, FALSE)

\* a limb is divided in two steps, so that r * 2^LimbBits need not fit an integer
LimbLow == LimbBits \div 2
LimbHigh == LimbBits - LimbLow

\* the remainder of r * 2^LimbBits by d (r < d < 2^24)
DivRem(r, d) == (((r * Pow2[LimbHigh]) % d) * Pow2[LimbLow]) % d

\* the leading limb of r / d (r < d < 2^24): floor(r * 2^LimbBits / d)
DivLimb(r, d) ==
    ((r * Pow2[LimbHigh]) \div d) * Pow2[LimbLow]
        + (((r * Pow2[LimbHigh]) % d) * Pow2[LimbLow]) \div d

\* the n leading limbs of r / d (r < d), least significant first
RECURSIVE DivFrac(_, _, _)
DivFrac(r, d, n) ==
    IF n = 0 THEN <<>> ELSE DivFrac(DivRem(r, d), d, n - 1) \o <<DivLimb(r, d)>>

\* the remainder left after the n leading limbs of r / d
RECURSIVE DivFracRem(_, _, _)
DivFracRem(r, d, n) == IF n = 0 THEN r ELSE DivFracRem(DivRem(r, d), d, n - 1)

\* a / b for integers a, b >= 0
FDiv(a, b) ==
    IF b = 0 THEN (IF a = 0 THEN FNaN ELSE FInfinity)
    ELSE FRound(DivFrac(a % b, b, FracLimbs) \o BigFromInt(a \div b),
                -(LimbBits * FracLimbs),
                DivFracRem(a % b, b, FracLimbs) # 0)

\* x * k for a binary64 x >= 0 and an integer k >= 0
FMul(x, k) ==
    CASE x.kind = "NaN" -> x
      [] x.kind = "Infinity" -> IF k = 0 THEN FNaN ELSE x
      [] x.kind = "zero" -> x
      [] OTHER -> FRound(BigMul(x.m, k), x.e, FALSE)

\* x + k for a binary64 x >= 0 and an integer k >= 0
FAdd(x, k) ==
    CASE x.kind = "NaN" -> x
      [] x.kind = "Infinity" -> x
      [] x.kind = "zero" -> FFromInt(k)
      [] OTHER ->
           LET s == IF x.e < 0 THEN x.e ELSE 0
               n == MantLimbs + 1 + ((IF x.e < 0 THEN -x.e ELSE x.e) + 31) \div LimbBits
           IN  FRound(BigAdd(BigShift(x.m, s - x.e, n), BigShift(BigFromInt(k), s, n)),
                      s, FALSE)

(***************************************************************************)
(* GridLines.tsx                                                           *)
(***************************************************************************)

MIN_WIDTH == 100

SECOND == 1000
MINUTE == 60 * SECOND

\* the array literal TIME_OPTIONS is initialised with
TimeOptionsLiteral == <<100, 500, 1 * SECOND, 5 * SECOND, 10 * SECOND, 30 * SECOND, MINUTE>>

\* the pixels the label of a guide line stands to the right of the line
LabelOffset == 4

VARIABLES
    TIME_OPTIONS,     \* the module-level array (const binds the name, not the elements)
    totalWidth,       \* the props of the last invocation of GridLines
    totalTime,
    maxCols,          \* the locals of the last invocation of GridLines
    timeOptionCols,
    timeOptionIndex,
    timeOption,
    numCols,
    widthPerCol,
    outcome,          \* "idle" before the first invocation, then "returned" or "RangeError"
    calls,            \* the invocations observed so far: their props and their layouts
    ragPc,            \* retrieve_and_generate: "idle", "loop" (at the while test), "done"
    query,
    runStatus,        \* run.status as last fetched
    polls,            \* runs.retrieve calls of the current invocation
    ragOut            \* what the invocation returned or raised

gridVars == <<TIME_OPTIONS, totalWidth, totalTime, maxCols, timeOptionCols,
              timeOptionIndex, timeOption, numCols, widthPerCol, outcome>>
ragVars == <<ragPc, query, runStatus, polls, ragOut>>
vars == <<gridVars, calls, ragVars>>

\* Math.floor(totalWidth / MIN_WIDTH)
MaxCols(w) == w \div MIN_WIDTH

\* TIME_OPTIONS.map((timeOption) => Math.floor(totalTime / timeOption))
TimeOptionCols(options, t) == [j \in 1..Len(options) |-> t \div options[j]]

\* a variant of the predicate that admits equality: (c) => c <= maxCols
FitsLoose(c, max) == c <= max

\* the predicate of findIndex: (c) => c < maxCols
Fits(c, max) == c < max

\* Array.prototype.findIndex from position j (0-based): the first index whose
\* element passes, -1 when none does
RECURSIVE FindIndexFrom(_, _, _)
FindIndexFrom(cols, max, j) ==
    IF j >= Len(cols) THEN -1
    ELSE IF Fits(cols[j + 1], max) THEN j
    ELSE FindIndexFrom(cols, max, j + 1)

\* a variant of the search, Array.prototype.findLastIndex: the last index whose
\* element passes
RECURSIVE FindLastIndexFrom(_, _, _)
FindLastIndexFrom(cols, max, j) ==
    IF j < 0 THEN -1
    ELSE IF Fits(cols[j + 1], max) THEN j
    ELSE FindLastIndexFrom(cols, max, j - 1)

FindLastIndex(cols, max) == FindLastIndexFrom(cols, max, Len(cols) - 1)

FindIndex(cols, max) == FindIndexFrom(cols, max, 0)

\* timeOptionIndex !== -1 ? TIME_OPTIONS[timeOptionIndex] : 1
TimeOption(options, idx) == IF idx # -1 THEN options[idx + 1] ELSE 1

\* a variant of the count with a line at both ends of the ruler
NumColsFencepost(t, option) == t \div option + 1

\* Math.floor(totalTime / timeOption)
NumCols(t, option) == t \div option

\* (timeOption / totalTime) * totalWidth
WidthPerCol(option, t, w) == FMul(FDiv(option, t), w)

\* Array(numCols) throws a RangeError unless numCols is an array length
ArrayLengthOk(n) == n >= 0

\* a variant of the component that reverses TIME_OPTIONS in place before it searches
GridLinesReversing(w, t) ==
    LET options == [j \in 1..Len(TIME_OPTIONS) |-> TIME_OPTIONS[Len(TIME_OPTIONS) + 1 - j]]
        idx == FindIndex(TimeOptionCols(options, t), MaxCols(w))
    IN  /\ TIME_OPTIONS' = options
        /\ totalWidth' = w
        /\ totalTime' = t
        /\ maxCols' = MaxCols(w)
        /\ timeOptionCols' = TimeOptionCols(options, t)
        /\ timeOptionIndex' = idx
        /\ timeOption' = TimeOption(options, idx)
        /\ numCols' = NumCols(t, TimeOption(options, idx))
        /\ widthPerCol' = WidthPerCol(TimeOption(options, idx), t, w)
        /\ outcome' = "returned"

\* one invocation of the component with the props totalWidth = w, totalTime = t
GridLines(w, t) ==
    LET cols == TimeOptionCols(TIME_OPTIONS, t)
        idx == FindIndex(cols, MaxCols(w))
        option == TimeOption(TIME_OPTIONS, idx)
        n == NumCols(t, option)
    IN  /\ totalWidth' = w
        /\ totalTime' = t
        /\ maxCols' = MaxCols(w)
        /\ timeOptionCols' = cols
        /\ timeOptionIndex' = idx
        /\ timeOption' = option
        /\ numCols' = n
        /\ widthPerCol' = WidthPerCol(option, t, w)
        /\ outcome' = IF ArrayLengthOk(n) THEN "returned" ELSE "RangeError"
        /\ UNCHANGED TIME_OPTIONS

\* a variant of the callback that uses the index i where the code uses i + 1
LineFromZero(i) ==
    [left |-> FMul(widthPerCol, i),
     labelLeft |-> FAdd(FMul(widthPerCol, i), LabelOffset),
     label |-> <<i * timeOption, "ms">>]

\* the guide line and the label the map callback returns for index i (0-based)
Line(i) ==
    [left |-> FMul(widthPerCol, i + 1),
     labelLeft |-> FAdd(FMul(widthPerCol, i + 1), LabelOffset),
     label |-> <<(i + 1) * timeOption, "ms">>]

\* the children of the returned element, Array(numCols).fill(undefined).map(...): a
\* function of the locals of the invocation
Lines == IF outcome = "returned" THEN [j \in 1..numCols |-> Line(j - 1)] ELSE <<>>

\* what an invocation computed; the returned element is a function of it
Layout ==
    [timeOption |-> timeOption, numCols |-> numCols, widthPerCol |-> widthPerCol,
     outcome |-> outcome]

\* the tick interval an invocation with the props w, t selects
SelectedInterval(w, t) ==
    TimeOption(TIME_OPTIONS, FindIndex(TimeOptionCols(TIME_OPTIONS, t), MaxCols(w)))

(***************************************************************************)
(* The props the invocations are given.                                    *)
(***************************************************************************)

\* widths reach MaxWidthCols columns of MIN_WIDTH pixels
MaxWidthCols == 10
\* durations reach MaxTimeMult times each tick interval
MaxTimeMult == 11
\* the layouts whose guide lines are materialised have at most this many lines
MaxRulerLines == 12
\* invocations observed in a row
MaxCalls == 3

\* within a column: its first pixel, two pixels inside it, its last pixel
WidthOffsets == {0, 3, 41, MIN_WIDTH - 1}
Widths == {k * MIN_WIDTH + d : k \in 0..MaxWidthCols, d \in WidthOffsets}

\* multiples of the tick intervals and of 1 ms, and their neighbours
TimeUnits == {1} \cup {TimeOptionsLiteral[j] : j \in 1..Len(TimeOptionsLiteral)}
Times == {m * u + d : m \in 0..MaxTimeMult, u \in TimeUnits, d \in {-1, 0, 1}} \cap Nat

\* the scenarios of the specification and three further props
ProbeProps == {<<1000, 2000>>, <<100, 100000>>, <<500, 0>>, <<641, 500>>, <<3, 5>>, <<41, 1>>}

(***************************************************************************)
(* openai_assistants_api.ipynb: RAG_with_OpenAI_Assistant                  *)
(***************************************************************************)

\* runs.retrieve calls of one invocation
MaxPolls == 3
\* annotations of the first content part of the newest message
MaxAnnotations == 2

Queries == {"How did paul graham grow up?", "q2", "q3"}

\* the values of run.status of the Assistants API
RunStatuses == {"queued", "in_progress", "requires_action", "cancelling", "cancelled",
                "failed", "completed", "expired"}

\* while run.status in ['queued', 'in_progress', 'cancelling']
ActiveStatuses == {"queued", "in_progress", "cancelling"}

FallbackResponse == "Unable to retrieve information at this time."

NoResult == [kind |-> "none"]

\* threads.create, messages.create, runs.create: the run starts in any status
RagCreateRun(q, s) ==
    /\ ragPc \in {"idle", "done"}
    /\ ragPc' = "loop"
    /\ query' = q
    /\ runStatus' = s
    /\ polls' = 0
    /\ ragOut' = NoResult

\* one turn of the loop: sleep, then runs.retrieve answers any status
RagPoll(s) ==
    /\ ragPc = "loop"
    /\ runStatus \in ActiveStatuses
    /\ polls < MaxPolls
    /\ runStatus' = s
    /\ polls' = polls + 1
    /\ UNCHANGED <<ragPc, query, ragOut>>

\* the loop is left; nAnn is the number of annotations of the message listed
RagFinish(nAnn) ==
    /\ ragPc = "loop"
    /\ runStatus \notin ActiveStatuses
    /\ ragPc' = "done"
    /\ ragOut' =
         IF runStatus = "completed"
         THEN IF nAnn = 0
              THEN [kind |-> "raised", error |-> "IndexError"]
              ELSE [kind |-> "returned", response |-> <<"text", query>>,
                    quote |-> <<"quote", query>>]
         ELSE \* response is bound, quote is not: return response, quote
              [kind |-> "raised", error |-> "UnboundLocalError"]
    /\ UNCHANGED <<query, runStatus, polls>>

(***************************************************************************)
(* Specifications                                                          *)
(***************************************************************************)

Init ==
    /\ TIME_OPTIONS = TimeOptionsLiteral
    /\ totalWidth = 0
    /\ totalTime = 0
    /\ maxCols = 0
    /\ timeOptionCols = <<>>
    /\ timeOptionIndex = -1
    /\ timeOption = 1
    /\ numCols = 0
    /\ widthPerCol = FNaN
    /\ outcome = "idle"
    /\ calls = <<>>
    /\ ragPc = "idle"
    /\ query = ""
    /\ runStatus = "none"
    /\ polls = 0
    /\ ragOut = NoResult

\* the component is rendered with any props
Render == \E w \in Widths, t \in Times : GridLines(w, t)

\* the first render after the module is loaded
Next == outcome = "idle" /\ Render /\ UNCHANGED <<calls, ragVars>>

Spec == Init /\ [][Next]_vars

\* the first render, of any props whose layout has at most MaxRulerLines lines
NextRuler ==
    outcome = "idle" /\ Render /\ numCols' <= MaxRulerLines /\ UNCHANGED <<calls, ragVars>>

SpecRuler == Init /\ [][NextRuler]_vars

\* up to MaxCalls invocations in a row, each recorded
NextObserved ==
    /\ Len(calls) < MaxCalls
    /\ \E p \in ProbeProps : GridLines(p[1], p[2])
    /\ calls' = Append(calls, [props |-> <<totalWidth', totalTime'>>, layout |-> Layout'])
    /\ UNCHANGED ragVars

SpecObserved == Init /\ [][NextObserved]_vars

NextRag ==
    \/ \E q \in Queries, s \in RunStatuses : RagCreateRun(q, s) /\ UNCHANGED <<gridVars, calls>>
    \/ \E s \in RunStatuses : RagPoll(s) /\ UNCHANGED <<gridVars, calls>>
    \/ \E n \in 0..MaxAnnotations : RagFinish(n) /\ UNCHANGED <<gridVars, calls>>

SpecRag == Init /\ [][NextRag]_vars

(***************************************************************************)
(* Properties                                                              *)
(***************************************************************************)

RECURSIVE BigLessFrom(_, _, _)
BigLessFrom(a, b, j) ==
    IF j = 0 THEN FALSE
    ELSE IF Limb(a, j) # Limb(b, j) THEN Limb(a, j) < Limb(b, j)
    ELSE BigLessFrom(a, b, j - 1)

BigLess(a, b) == BigLessFrom(a, b, IF Len(a) > Len(b) THEN Len(a) ELSE Len(b))

\* x < y for binary64 values x, y >= 0, as JavaScript compares them
FLess(x, y) ==
    CASE x.kind = "NaN" \/ y.kind = "NaN" -> FALSE
      [] x.kind = "Infinity" -> FALSE
      [] y.kind = "Infinity" -> TRUE
      [] y.kind = "zero" -> FALSE
      [] x.kind = "zero" -> TRUE
      [] OTHER -> x.e < y.e \/ (x.e = y.e /\ BigLess(x.m, y.m))

FLeq(x, y) == x.kind # "NaN" /\ y.kind # "NaN" /\ ~FLess(y, x)

Returned == outcome = "returned"

PositiveProps == totalWidth > 0 /\ totalTime > 0

\* the tick intervals as the specification lists them
ListedOptions == {100, 500, 1000, 5000, 10000, 30000, 60000}

\* the listed tick intervals that pass the fit test for the props of the state
Passing == {o \in ListedOptions : totalTime \div o < totalWidth \div 100}

\* C1: whenever a listed tick interval is selected (not the fallback 1), the rendered
\* column count floor(totalTime / tickInterval) is strictly less than
\* maxCols = floor(totalWidth / 100).
C1_FitProperty ==
    (Returned /\ PositiveProps /\ timeOption \in ListedOptions)
        => /\ totalTime \div timeOption < totalWidth \div 100
           /\ numCols < maxCols
           /\ maxCols = totalWidth \div 100

C1_Witness ==
    Returned /\ PositiveProps /\ timeOption = 5000 /\ numCols = 2 /\ maxCols = 3

\* C2: for a fixed totalTime > 0 and widths 0 < w1 <= w2, the tick interval selected
\* for w2 is at most the one selected for w1, the fallback 1 included.
C2_MonotoneInWidth ==
    (Returned /\ PositiveProps)
        => \A w1 \in Widths :
              (0 < w1 /\ w1 <= totalWidth) => timeOption <= SelectedInterval(w1, totalTime)

\* C3: the selected tick interval is the smallest listed interval t with
\* floor(totalTime / t) < floor(totalWidth / 100); it is the fallback 1 exactly when no
\* listed interval passes; so it is always a listed interval or 1.
C3_SelectionRule ==
    (Returned /\ PositiveProps)
        => /\ timeOption \in ListedOptions \cup {1}
           /\ (timeOption = 1) <=> (Passing = {})
           /\ Passing # {} => /\ timeOption \in Passing
                              /\ \A o \in Passing : timeOption <= o
           /\ \A o \in ListedOptions :
                 o < timeOption => totalTime \div o >= totalWidth \div 100

C3_Witness ==
    /\ Returned /\ PositiveProps
    /\ maxCols >= 1
    /\ timeOptionIndex = -1
    /\ \E w \in Widths : w > totalWidth /\ SelectedInterval(w, totalTime) = 60000

\* C4: with totalTime = 0 and any totalWidth >= 0 the invocation returns, renders zero
\* columns, no guide line and no label, so the infinite or NaN column width is no
\* rendered offset.
C4_ZeroDuration ==
    (outcome # "idle" /\ totalTime = 0 /\ totalWidth >= 0)
        => /\ outcome = "returned"
           /\ numCols = 0
           /\ Lines = <<>>

C4_Witness ==
    Returned /\ totalTime = 0 /\ totalWidth = 500 /\ widthPerCol = FInfinity

\* C5: whenever the fallback interval 1 is used, the number of guide lines is capped at
\* maxCols (or at some maximum) instead of being floor(totalTime / 1).
C5_FallbackCapped ==
    (Returned /\ PositiveProps /\ timeOptionIndex = -1)
        => (numCols <= maxCols \/ numCols < totalTime)

\* C6: exactly numCols = floor(totalTime / t) guide lines are rendered, the i-th at offset
\* i * columnWidth with columnWidth = (t / totalTime) * totalWidth, labelled i * t "ms",
\* the label 4 px to the right of its line; totalWidth = 1000, totalTime = 2000 gives
\* t = 500, four lines at 250, 500, 750, 1000 labelled 500ms, 1000ms, 1500ms, 2000ms.
C6_LayoutGeometry ==
    (Returned /\ PositiveProps)
        => LET lines == Lines
               columnWidth == FMul(FDiv(timeOption, totalTime), totalWidth)
           IN  /\ Len(lines) = totalTime \div timeOption
               /\ \A i \in 1..Len(lines) :
                     LET line == lines[i]
                     IN  /\ line.left = FMul(columnWidth, i)
                         /\ line.label = <<i * timeOption, "ms">>
                         /\ line.labelLeft = FAdd(line.left, 4)
               /\ (totalWidth = 1000 /\ totalTime = 2000)
                     => /\ timeOption = 500
                        /\ numCols = 4
                        /\ widthPerCol = FFromInt(250)
                        /\ lines = [i \in 1..4 |-> [left |-> FFromInt(250 * i),
                                                    labelLeft |-> FFromInt(250 * i + 4),
                                                    label |-> <<500 * i, "ms">>]]

C6_Witness == Returned /\ totalWidth = 1000 /\ totalTime = 2000 /\ Len(Lines) = 4

\* C7: the layout is a function of (totalWidth, totalTime) only: two invocations with the
\* same props, whatever was invoked between them, compute the same layout, and
\* TIME_OPTIONS is never modified.
C7_Deterministic ==
    /\ TIME_OPTIONS = TimeOptionsLiteral
    /\ \A i, j \in 1..Len(calls) :
          calls[i].props = calls[j].props => calls[i].layout = calls[j].layout

C7_Witness ==
    /\ Len(calls) = 3
    /\ calls[1].props = calls[3].props
    /\ calls[2].props # calls[1].props
    /\ calls[2].layout # calls[1].layout

\* C8: whenever a listed tick interval t is selected, the spacing of adjacent guide lines
\* (t / totalTime) * totalWidth is strictly greater than MIN_WIDTH = 100 px, that is
\* t * totalWidth > 100 * totalTime.
C8_MinSpacing ==
    (Returned /\ PositiveProps /\ timeOption \in ListedOptions)
        => /\ FLess(FFromInt(100), widthPerCol)
           /\ timeOption * totalWidth > 100 * totalTime

\* a spacing under 101 px
C8_Witness ==
    /\ Returned /\ PositiveProps /\ timeOptionIndex # -1
    /\ numCols >= 1
    /\ timeOption * totalWidth < 101 * totalTime

\* x <= w * (1 + 2^-51) for a finite binary64 x > 0 and an integer w >= 1,
\* that is x.m * 2^(x.e + 51) <= w * 2^51 + w
WithinRounding(x, w) ==
    LET s == x.e + (MantBits - 2)
        bound == BigAdd(BigShift(BigFromInt(w), -(MantBits - 2), 2 * MantLimbs), BigFromInt(w))
    IN  IF s < -4 * LimbBits THEN TRUE
        ELSE IF s > 4 * LimbBits THEN FALSE
        ELSE IF s >= 0 THEN ~BigLess(bound, BigShift(x.m, -s, 2 * MantLimbs))
        ELSE ~BigLess(BigShift(bound, s, 2 * MantLimbs), x.m)

\* C9 as stated: every rendered guide line i has its offset in (0, totalWidth] and its
\* label value i * interval in (0, totalTime].
C9_InsideRuler ==
    (Returned /\ PositiveProps)
        => LET lines == Lines
           IN  \A i \in 1..Len(lines) :
                  LET line == lines[i]
                  IN  /\ FLess(FZero, line.left)
                      /\ FLeq(line.left, FFromInt(totalWidth))
                      /\ 0 < line.label[1]
                      /\ line.label[1] <= totalTime

\* C9 amended: for integer props every rendered guide line i has its label value in
\* (0, totalTime] and its offset in (0, totalWidth * (1 + 2^-51)]: the offset is a
\* rounded binary64 product and may exceed totalWidth by rounding, not by more.
C9_InsideRulerRounded ==
    (Returned /\ PositiveProps)
        => LET lines == Lines
           IN  \A i \in 1..Len(lines) :
                  LET line == lines[i]
                  IN  /\ line.left.kind = "finite"
                      /\ WithinRounding(line.left, totalWidth)
                      /\ 0 < line.label[1]
                      /\ line.label[1] <= totalTime

\* the last guide line stands to the right of totalWidth
C9_Witness ==
    /\ Returned /\ PositiveProps
    /\ numCols >= 1
    /\ timeOptionIndex # -1
    /\ FLess(FFromInt(totalWidth), Line(numCols - 1).left)

\* C10: retrieve_and_generate re-fetches the run while its status is queued, in_progress
\* or cancelling and stops at the first other status; for completed it returns the
\* message text with its quote, for every other status it returns the fallback response
\* as a value and raises nothing.
C10_PollingOutcome ==
    ragPc = "done"
        => /\ runStatus \notin {"queued", "in_progress", "cancelling"}
           /\ ragOut.kind = "returned"
           /\ IF runStatus = "completed"
              THEN ragOut.response = <<"text", query>> /\ ragOut.quote = <<"quote", query>>
              ELSE ragOut.response = "Unable to retrieve information at this time."

=============================================================================
